---- MODULE Spec2Model ----
(***************************************************************************)
(* Model of influence.py: the influence computation (manhattan,            *)
(* colour_from_percentages, compute_influence) and the replay driver main. *)
(*                                                                         *)
(* Percentages are Python floats in the source.  A percentage is modelled  *)
(* as the rational number the float approximates, kept in lowest terms as  *)
(* <<numerator, denominator>>; ZeroPct is 0.0.  round(pct * 2.55) is       *)
(* modelled by its result, including what the double product does when     *)
(* the exact product lies half way between two integers.                   *)
(***************************************************************************)
EXTENDS Integers, Sequences, FiniteSets, TLC

VARIABLES
    sgf_file,       \* the input file: "missing", "unparseable", "bad_setup", "ok"
    pc,             \* position in main
    exit_code,      \* exit status of the run, Running until it ends
    messages,       \* what the run has printed
    board_size,     \* sgf_game.get_size()
    setup,          \* the board get_setup_and_moves returned (history)
    board,          \* the sgfmill board the replay plays on
    moves,          \* the move list get_setup_and_moves returned
    idx,            \* index of the move being replayed
    influence,      \* the map compute_influence returned last
    frames,         \* the files of the frames directory, in index order
    encoder_calls,  \* number of ffmpeg invocations
    returncode      \* result.returncode of ffmpeg, 0 before it ran

vars == <<sgf_file, pc, exit_code, messages, board_size, setup, board, moves,
          idx, influence, frames, encoder_calls, returncode>>

\* ------------------------------------------------------------------ bounds
MaxSize == 3        \* largest board side of the compute_influence harness
MaxStones == 2      \* most stones on a board of the harness
MaxMoves == 2       \* longest replayed move sequence

\* ------------------------------------------------------- values and helpers
None == "none"
PassMove == <<>>            \* a move of None in the move list
NoInfluence == <<>>         \* influence not computed yet
Running == <<>>             \* no exit status yet
Exited(status) == <<status>>
Colours == {"b", "w"}

Abs(x) == IF x < 0 THEN -x ELSE x

\* the largest element, where the smallest is meant
Max(S) == CHOOSE m \in S : \A x \in S : m >= x

Min(S) == CHOOSE m \in S : \A x \in S : m <= x

RECURSIVE Gcd(_, _)
Gcd(a, b) == IF b = 0 THEN a ELSE Gcd(b, a % b)

\* the rational n/d in lowest terms (d > 0, n >= 0)
Frac(n, d) == <<n \div Gcd(n, d), d \div Gcd(n, d)>>

ZeroPct == Frac(0, 1)

Coords(size) == 0 .. (size - 1)
Points(size) == Coords(size) \X Coords(size)

\* ------------------------------------------------------------ sgfmill board
\* A board maps each (row, col) tuple to "b", "w" or None.
EmptyBoard(size) == [p \in Points(size) |-> None]

Neighbours(size, p) ==
    {q \in Points(size) : Abs(q[1] - p[1]) + Abs(q[2] - p[2]) = 1}

\* points of the group of p: same-coloured points connected to p
RECURSIVE Grow(_, _, _)
Grow(b, size, G) ==
    LET more == {q \in Points(size) :
                    /\ q \notin G
                    /\ \E g \in G : q \in Neighbours(size, g) /\ b[q] = b[g]}
    IN IF more = {} THEN G ELSE Grow(b, size, G \cup more)

GroupOf(b, size, p) == Grow(b, size, {p})

IsSurrounded(b, size, G) ==
    \A g \in G : \A q \in Neighbours(size, g) : b[q] # None

\* the surrounded groups among the groups of p and of its neighbours
SurroundedGroups(b, size, p) ==
    {G \in {GroupOf(b, size, q) :
                q \in {r \in {p} \cup Neighbours(size, p) : b[r] # None}} :
        IsSurrounded(b, size, G)}

Opponent(colour) == IF colour = "b" THEN "w" ELSE "b"

\* board.play raises when the point is occupied
PlayRaises(b, row, col) == b[<<row, col>>] # None

\* board.play(row, col, colour) on an empty point: place the stone, then
\* remove the surrounded opponent groups, or else the surrounded own group
Play(b, size, row, col, colour) ==
    LET placed == [b EXCEPT ![<<row, col>>] = colour]
        surrounded == SurroundedGroups(placed, size, <<row, col>>)
        opp == {G \in surrounded :
                   \E g \in G : placed[g] = Opponent(colour)}
        to_capture == IF Cardinality(surrounded) = 1 THEN surrounded ELSE opp
        dead == UNION to_capture
    IN [p \in Points(size) |-> IF p \in dead THEN None ELSE placed[p]]

\* board.list_occupied_points(): the (colour, point) pairs of the stones
ListOccupiedPoints(b) ==
    {<<b[p], p>> : p \in {q \in DOMAIN b : b[q] # None}}

\* a position sgfmill accepts or produces: no group without a liberty
IsLegalPosition(b, size) ==
    \A p \in Points(size) :
        b[p] # None => ~IsSurrounded(b, size, GroupOf(b, size, p))

\* ---------------------------------------------------------------- engine
\* the larger of the two coordinate differences, not their sum
manhattan_chebyshev(p1, p2) ==
    IF Abs(p1[1] - p2[1]) >= Abs(p1[2] - p2[2])
    THEN Abs(p1[1] - p2[1]) ELSE Abs(p1[2] - p2[2])

manhattan(p1, p2) == Abs(p1[1] - p2[1]) + Abs(p1[2] - p2[2])

\* percentages whose product with the double 2.55 is exactly half way
\* between two integers after rounding of the product; Python's round then
\* rounds half to even.  For every other exact tie the double product falls
\* just below the half.
ExactHalfProducts == {Frac(10, 1)}

\* int(round(pct * 2.55))
RoundTimes255(pct) ==
    LET n == pct[1] * 255
        d == pct[2] * 100
        fl == n \div d
        twice == 2 * (n % d)
    IN IF twice > d THEN fl + 1
       ELSE IF twice < d THEN fl
       ELSE IF pct \in ExactHalfProducts
            THEN (IF fl % 2 = 0 THEN fl ELSE fl + 1)
            ELSE fl

Clamp(x) == IF x < 0 THEN 0 ELSE IF x > 255 THEN 255 ELSE x

\* the channels exchanged: black drawn red, white drawn green
colour_channels_exchanged(black_pct, white_pct) ==
    <<Clamp(RoundTimes255(black_pct)), Clamp(RoundTimes255(white_pct)), 0>>

\* green computed from white_pct as well
colour_green_from_white(black_pct, white_pct) ==
    <<Clamp(RoundTimes255(white_pct)), Clamp(RoundTimes255(white_pct)), 0>>

colour_from_percentages(black_pct, white_pct) ==
    LET red == Clamp(RoundTimes255(white_pct))
        green == Clamp(RoundTimes255(black_pct))
        blue == 0
    IN <<red, green, blue>>

\* a colour without stones treated as distance 0
PctOf_full_without_stones(pt, stones) ==
    IF stones # {}
    THEN LET d == Min({manhattan(pt, s) : s \in stones})
         IN Frac(100, d + 1)
    ELSE Frac(100, 1)

\* 1.0 / (d + 1) * 100.0 over the stones of one colour, 0.0 without stones
PctOf(pt, stones) ==
    IF stones # {}
    THEN LET d == Min({manhattan(pt, s) : s \in stones})
         IN Frac(100, d + 1)
    ELSE ZeroPct

\* the loops started at 1: range(1, size)
GridPoints_from_one(size) ==
    {<<col, row>> : col \in 1 .. (size - 1), row \in 1 .. (size - 1)}

\* the points (col, row) the two loops over range(size) visit
GridPoints(size) ==
    {<<col, row>> : col \in 0 .. (size - 1), row \in 0 .. (size - 1)}

compute_influence(b, size) ==
    LET occupied == ListOccupiedPoints(b)
        black_stones == {o[2] : o \in {x \in occupied : x[1] = "b"}}
        white_stones == {o[2] : o \in {x \in occupied : x[1] = "w"}}
    IN [pt \in GridPoints(size) |->
            LET black_pct == PctOf(pt, black_stones)
                white_pct == PctOf(pt, white_stones)
            IN [black_pct |-> black_pct,
                white_pct |-> white_pct,
                rgb |-> colour_from_percentages(black_pct, white_pct)]]

\* ------------------------------------------------------------------ inputs
\* boards of the given side with at most k stones
RECURSIVE BoardsUpTo(_, _)
BoardsUpTo(size, k) ==
    IF k = 0 THEN {EmptyBoard(size)}
    ELSE LET fewer == BoardsUpTo(size, k - 1)
         IN fewer \cup
            {[b EXCEPT ![p] = c] :
                <<b, p, c>> \in {x \in fewer \X Points(size) \X Colours :
                                    x[1][x[2]] = None}}

LegalBoards(size, k) ==
    {b \in BoardsUpTo(size, k) : IsLegalPosition(b, size)}

\* board sides of a replayed game
ReplaySizes == {1, 2}

\* setup positions of a replayed game: no stone or one stone
SetupBoards(size) == LegalBoards(size, 1)

\* a parsed move: (colour, None) or (colour, point)
MoveInputs(size) == Colours \X ({PassMove} \cup Points(size))

MoveLists(size) ==
    UNION {[1 .. m -> MoveInputs(size)] : m \in 0 .. MaxMoves}

\* what a saved frame shows: the overlay colours and the stones drawn
Frame(k, infl, b) ==
    [idx |-> k,
     overlay |-> [pt \in DOMAIN infl |-> infl[pt].rgb],
     stones |-> ListOccupiedPoints(b)]

StaleFrame == [idx |-> 1, overlay |-> <<>>, stones |-> {}]

\* ------------------------------------------------------------------- main
Init ==
    /\ sgf_file \in {"missing", "unparseable", "bad_setup", "ok"}
    /\ pc = "start"
    /\ exit_code = Running
    /\ messages = <<>>
    /\ board_size = 0
    /\ setup = <<>>
    /\ board = <<>>
    /\ moves = <<>>
    /\ idx = 0
    /\ influence = NoInfluence
    /\ frames \in {<<>>, <<StaleFrame>>}
    /\ encoder_calls = 0
    /\ returncode = 0


\* an exception nothing catches: traceback, exit status 1
Uncaught(msg) ==
    /\ messages' = Append(messages, msg)
    /\ exit_code' = Exited(1)
    /\ pc' = "exit"

\* the message printed, the exit status left at 0
ParserError_exit_zero(msg) ==
    /\ messages' = Append(messages, msg)
    /\ exit_code' = Exited(0)
    /\ pc' = "exit"

\* parser.error(msg): print the message and exit with status 2
ParserError(msg) ==
    /\ messages' = Append(messages, msg)
    /\ exit_code' = Exited(2)
    /\ pc' = "exit"

CheckFile ==
    /\ pc = "start"
    /\ IF sgf_file = "missing"
       THEN ParserError("File not found")
       ELSE /\ pc' = "parse"
            /\ UNCHANGED <<exit_code, messages>>
    /\ UNCHANGED <<sgf_file, board_size, setup, board, moves, idx, influence,
                   frames, encoder_calls, returncode>>

ParseSgf ==
    /\ pc = "parse"
    /\ IF sgf_file = "unparseable"
       THEN /\ ParserError("Could not parse SGF")
            /\ UNCHANGED board_size
       ELSE /\ board_size' \in ReplaySizes
            /\ pc' = "setup"
            /\ UNCHANGED <<exit_code, messages>>
    /\ UNCHANGED <<sgf_file, setup, board, moves, idx, influence, frames,
                   encoder_calls, returncode>>

GetSetupAndMoves ==
    /\ pc = "setup"
    /\ IF sgf_file = "bad_setup"
       THEN /\ Uncaught("ValueError")
            /\ UNCHANGED <<setup, board, moves>>
       ELSE /\ board' \in SetupBoards(board_size)
            /\ setup' = board'
            /\ moves' \in MoveLists(board_size)
            /\ pc' = "frames_dir"
            /\ UNCHANGED <<exit_code, messages>>
    /\ UNCHANGED <<sgf_file, board_size, idx, influence, frames,
                   encoder_calls, returncode>>

PrepareFramesDir ==
    /\ pc = "frames_dir"
    /\ frames' = <<>>
    /\ idx' = 1
    /\ pc' = "replay"
    /\ UNCHANGED <<sgf_file, exit_code, messages, board_size, setup, board,
                   moves, influence, encoder_calls, returncode>>

\* a pass skips the rest of the iteration: no frame for it
ReplayMove_pass_skips_frame ==
    /\ pc = "replay"
    /\ idx <= Len(moves)
    /\ LET color == moves[idx][1]
           move == moves[idx][2]
       IN IF move = PassMove
          THEN /\ pc' = "replay"
               /\ idx' = idx + 1
               /\ UNCHANGED <<board, exit_code, messages>>
          ELSE LET col == move[1]
                   row == move[2]
               IN /\ idx' = idx
                  /\ IF PlayRaises(board, row, col)
                     THEN /\ ParserError("Invalid move")
                          /\ UNCHANGED board
                     ELSE /\ board' = Play(board, board_size, row, col, color)
                          /\ pc' = "influence"
                          /\ UNCHANGED <<exit_code, messages>>
    /\ UNCHANGED <<sgf_file, board_size, setup, moves, influence, frames,
                   encoder_calls, returncode>>

\* the exception of board.play swallowed: the replay goes on
ReplayMove_swallows_error ==
    /\ pc = "replay"
    /\ idx <= Len(moves)
    /\ LET color == moves[idx][1]
           move == moves[idx][2]
       IN IF move = PassMove
          THEN /\ pc' = "influence"
               /\ UNCHANGED <<board, exit_code, messages>>
          ELSE LET col == move[1]
                   row == move[2]
               IN IF PlayRaises(board, row, col)
                  THEN /\ messages' = Append(messages, "Invalid move")
                       /\ pc' = "influence"
                       /\ UNCHANGED <<board, exit_code>>
                  ELSE /\ board' = Play(board, board_size, row, col, color)
                       /\ pc' = "influence"
                       /\ UNCHANGED <<exit_code, messages>>
    /\ UNCHANGED <<sgf_file, board_size, setup, moves, idx, influence, frames,
                   encoder_calls, returncode>>

ReplayMove ==
    /\ pc = "replay"
    /\ idx <= Len(moves)
    /\ LET color == moves[idx][1]
           move == moves[idx][2]
       IN IF move = PassMove
          THEN /\ pc' = "influence"
               /\ UNCHANGED <<board, exit_code, messages>>
          ELSE LET col == move[1]
                   row == move[2]
               IN IF PlayRaises(board, row, col)
                  THEN /\ ParserError("Invalid move")
                       /\ UNCHANGED board
                  ELSE /\ board' = Play(board, board_size, row, col, color)
                       /\ pc' = "influence"
                       /\ UNCHANGED <<exit_code, messages>>
    /\ UNCHANGED <<sgf_file, board_size, setup, moves, idx, influence, frames,
                   encoder_calls, returncode>>

\* the map of the previous frame kept once there is one
ComputeInfluence_cached ==
    /\ pc = "influence"
    /\ influence' = IF influence = NoInfluence
                    THEN compute_influence(board, board_size)
                    ELSE influence
    /\ pc' = "render"
    /\ UNCHANGED <<sgf_file, exit_code, messages, board_size, setup, board,
                   moves, idx, frames, encoder_calls, returncode>>

ComputeInfluence ==
    /\ pc = "influence"
    /\ influence' = compute_influence(board, board_size)
    /\ pc' = "render"
    /\ UNCHANGED <<sgf_file, exit_code, messages, board_size, setup, board,
                   moves, idx, frames, encoder_calls, returncode>>

SaveFrame ==
    /\ pc = "render"
    /\ frames' = Append(frames, Frame(idx, influence, board))
    /\ messages' = Append(messages, "Saved frame")
    /\ idx' = idx + 1
    /\ pc' = "replay"
    /\ UNCHANGED <<sgf_file, exit_code, board_size, setup, board, moves,
                   influence, encoder_calls, returncode>>

RunEncoder ==
    /\ pc = "replay"
    /\ idx > Len(moves)
    /\ encoder_calls' = encoder_calls + 1
    /\ returncode' \in {0, 1}
    /\ messages' = Append(messages, IF returncode' # 0
                                    THEN "ffmpeg failed"
                                    ELSE "Video saved")
    /\ exit_code' = Exited(0)
    /\ pc' = "exit"
    /\ UNCHANGED <<sgf_file, board_size, setup, board, moves, idx, influence,
                   frames>>

Next ==
    \/ CheckFile
    \/ ParseSgf
    \/ GetSetupAndMoves
    \/ PrepareFramesDir
    \/ ReplayMove
    \/ ComputeInfluence
    \/ SaveFrame
    \/ RunEncoder

Spec == Init /\ [][Next]_vars

\* ------------------------------------------- harness for compute_influence
\* One call of compute_influence on each board of the bounded input set.
FnInit ==
    /\ sgf_file = "ok"
    /\ pc = "call"
    /\ exit_code = Running
    /\ messages = <<>>
    /\ board_size \in 1 .. MaxSize
    /\ board \in LegalBoards(board_size, MaxStones)
    /\ setup = board
    /\ moves = <<>>
    /\ idx = 0
    /\ influence = NoInfluence
    /\ frames = <<>>
    /\ encoder_calls = 0
    /\ returncode = 0

FnCall ==
    /\ pc = "call"
    /\ influence' = compute_influence(board, board_size)
    /\ pc' = "returned"
    /\ UNCHANGED <<sgf_file, exit_code, messages, board_size, setup, board,
                   moves, idx, frames, encoder_calls, returncode>>

FnNext == FnCall

FnSpec == FnInit /\ [][FnNext]_vars

\* ======================================================= compute_influence
Returned == pc = "returned"

StonesOf(colour) == {q \in DOMAIN board : board[q] = colour}

\* |c1 - c2| + |r1 - r2|, written out
Distance(p, q) ==
    (IF p[1] >= q[1] THEN p[1] - q[1] ELSE q[1] - p[1])
    + (IF p[2] >= q[2] THEN p[2] - q[2] ELSE q[2] - p[2])

\* d is the distance from p to the nearest stone of S
IsNearest(d, p, S) ==
    /\ \E s \in S : Distance(p, s) = d
    /\ \A s \in S : Distance(p, s) >= d

\* the rational pct equals 100 / (d + 1)
IsHundredOver(pct, d) == pct[1] * (d + 1) = 100 * pct[2]

PctIsContract(pct, p, S) ==
    IF S = {} THEN pct[1] = 0
    ELSE \E d \in 0 .. 2 * board_size : IsNearest(d, p, S) /\ IsHundredOver(pct, d)

OneBlackInCorner ==
    /\ board_size = 3
    /\ StonesOf("b") = {<<0, 0>>}
    /\ StonesOf("w") = {}

\* every point's percentage for a colour is 100 / (d + 1), d the least
\* Manhattan distance to a stone of that colour, and 0 without such a stone
PercentagesFollowContract ==
    \A p \in Points(board_size) :
        /\ PctIsContract(influence[p].black_pct, p, StonesOf("b"))
        /\ PctIsContract(influence[p].white_pct, p, StonesOf("w"))

\* the black percentages at (0,0), (1,0), (2,0) and at (2,2), white 0
CornerExample(at22) ==
    /\ influence[<<0, 0>>].black_pct = <<100, 1>>
    /\ influence[<<1, 0>>].black_pct = <<50, 1>>
    /\ influence[<<2, 0>>].black_pct = <<100, 3>>
    /\ influence[<<2, 2>>].black_pct = at22
    /\ \A p \in Points(3) : influence[p].white_pct = <<0, 1>>

\* C1 as stated: every point's percentage for a colour is 100 / (d + 1), d the
\* least Manhattan distance to a stone of that colour, and 0 when the colour
\* has no stone; on side 3 with one black stone at (0,0) the black percentages
\* are 100, 50, 100/3 at (0,0), (1,0), (2,0) and 25 at (2,2), white 0.
C1_AsStated ==
    Returned =>
        /\ PercentagesFollowContract
        /\ OneBlackInCorner => CornerExample(<<25, 1>>)

\* C1 amended: the same, with 20 (distance 4) at (2,2) in the example.
C1_Percentages ==
    Returned =>
        /\ PercentagesFollowContract
        /\ OneBlackInCorner => CornerExample(<<20, 1>>)

C1_Witness ==
    /\ Returned
    /\ OneBlackInCorner
    /\ influence[<<2, 0>>].black_pct = <<100, 3>>
    /\ influence[<<2, 2>>].black_pct = <<20, 1>>

\* C2: the returned map has exactly the N*N keys (col, row), 0 <= col, row < N.
C2_OneEntryPerPoint ==
    Returned =>
        /\ DOMAIN influence =
              {<<c, r>> : c \in 0 .. board_size - 1, r \in 0 .. board_size - 1}
        /\ Cardinality(DOMAIN influence) = board_size * board_size

C2_Witness ==
    /\ Returned
    /\ board_size = 3
    /\ StonesOf("b") = {} /\ StonesOf("w") = {}
    /\ Cardinality(DOMAIN influence) = 9

\* C3: a point holding a black stone has black percentage exactly 100 and
\* green 255, a point holding a white stone has white percentage exactly 100
\* and red 255, and at no point are both percentages 100.
C3_OwnStoneIsFull ==
    Returned =>
        \A p \in Points(board_size) :
            /\ board[p] = "b" =>
                  influence[p].black_pct = <<100, 1>> /\ influence[p].rgb[2] = 255
            /\ board[p] = "w" =>
                  influence[p].white_pct = <<100, 1>> /\ influence[p].rgb[1] = 255
            /\ ~(influence[p].black_pct = <<100, 1>>
                   /\ influence[p].white_pct = <<100, 1>>)

C3_Witness ==
    /\ Returned
    /\ \E p, q \in Points(board_size) :
          /\ board[p] = "b" /\ board[q] = "w"
          /\ influence[p].rgb[2] = 255 /\ influence[q].rgb[1] = 255

\* C4: with no stone of either colour every point's colour is (0, 0, 0).
C4_EmptyBoardIsBlack ==
    (Returned /\ StonesOf("b") = {} /\ StonesOf("w") = {}) =>
        \A p \in Points(board_size) : influence[p].rgb = <<0, 0, 0>>

C4_Witness ==
    /\ Returned
    /\ board_size = 2
    /\ StonesOf("b") = {} /\ StonesOf("w") = {}
    /\ influence[<<1, 1>>].rgb = <<0, 0, 0>>

NearestDistance(p, S) ==
    CHOOSE d \in 0 .. 2 * board_size : IsNearest(d, p, S)

\* a >= b for rationals with positive denominators
PctGeq(a, b) == a[1] * b[2] >= b[1] * a[2]

MonotoneFor(S, field) ==
    S # {} =>
        \A p, q \in Points(board_size) :
            NearestDistance(p, S) <= NearestDistance(q, S)
                => PctGeq(influence[p][field], influence[q][field])

\* C5: for a colour with a stone, a point no farther from its nearest stone
\* of that colour than another point has a percentage at least as large.
C5_Monotone ==
    Returned =>
        /\ MonotoneFor(StonesOf("b"), "black_pct")
        /\ MonotoneFor(StonesOf("w"), "white_pct")

C5_Witness ==
    /\ Returned
    /\ Cardinality(StonesOf("b")) >= 2
    /\ \E p, q \in Points(board_size) :
          /\ NearestDistance(p, StonesOf("b")) < NearestDistance(q, StonesOf("b"))
          /\ ~PctGeq(influence[q].black_pct, influence[p].black_pct)

\* the board with the two colours' stone sets exchanged
SwapColours(b) ==
    [p \in DOMAIN b |-> IF b[p] = None THEN None ELSE Opponent(b[p])]

\* C6: on the board with the stone sets exchanged, at every point the two
\* percentages are exchanged, red and green are exchanged, and blue is 0 in
\* both maps.
C6_Symmetry ==
    Returned =>
        LET swapped == compute_influence(SwapColours(board), board_size)
        IN \A p \in Points(board_size) :
              /\ swapped[p].black_pct = influence[p].white_pct
              /\ swapped[p].white_pct = influence[p].black_pct
              /\ swapped[p].rgb[1] = influence[p].rgb[2]
              /\ swapped[p].rgb[2] = influence[p].rgb[1]
              /\ swapped[p].rgb[3] = 0
              /\ influence[p].rgb[3] = 0

C6_Witness ==
    /\ Returned
    /\ StonesOf("b") # {} /\ StonesOf("w") # {}
    /\ \E p \in Points(board_size) : influence[p].rgb[1] # influence[p].rgb[2]

\* ==================================================================== main
\* the replay has begun: the frames directory is prepared
Replaying == idx >= 1

\* board.play rejects the move m on the board b
MoveRaises(b, m) == m[2] # PassMove /\ b[<<m[2][2], m[2][1]>>] # None

\* the board after the move m, which b accepts
ApplyMove(b, m) ==
    IF m[2] = PassMove THEN b
    ELSE Play(b, board_size, m[2][2], m[2][1], m[1])

\* the board after the first k moves
RECURSIVE BoardAfter(_)
BoardAfter(k) ==
    IF k = 0 THEN setup ELSE ApplyMove(BoardAfter(k - 1), moves[k])

LegalUpTo(k) ==
    \A j \in 1 .. k : ~MoveRaises(BoardAfter(j - 1), moves[j])

AllLegal == LegalUpTo(Len(moves))

\* the move at index k is the first one the board rejects
FirstRejected(k) ==
    /\ k \in 1 .. Len(moves)
    /\ LegalUpTo(k - 1)
    /\ MoveRaises(BoardAfter(k - 1), moves[k])

LastMessage == messages[Len(messages)]

\* the frame of index k shows the board after the first k moves
ShowsBoardAfter(k) ==
    /\ frames[k].idx = k
    /\ frames[k].stones = ListOccupiedPoints(BoardAfter(k))
    /\ frames[k].overlay =
          [pt \in Points(board_size) |->
              compute_influence(BoardAfter(k), board_size)[pt].rgb]

\* C7: when every move is legal, the frames written are those of the indices
\* 1, 2, ... in order, frame k shows the board after the first k moves, a
\* pass at index k leaves the stones of frame k those of frame k-1, and the
\* encoder is invoked once, only when all M frames are written.
C7_OneFramePerMove ==
    (Replaying /\ AllLegal) =>
        /\ Len(frames) <= Len(moves)
        /\ \A k \in 1 .. Len(frames) :
              /\ ShowsBoardAfter(k)
              /\ moves[k][2] = PassMove =>
                    frames[k].stones =
                        IF k = 1 THEN ListOccupiedPoints(setup)
                        ELSE frames[k - 1].stones
        /\ encoder_calls <= 1
        /\ encoder_calls = 1 => Len(frames) = Len(moves)
        /\ pc = "exit" => encoder_calls = 1 /\ Len(frames) = Len(moves)

C7_Witness ==
    /\ pc = "exit"
    /\ AllLegal
    /\ Len(moves) = 2
    /\ moves[1][2] # PassMove
    /\ moves[2][2] = PassMove
    /\ Len(frames) = 2
    /\ frames[2].stones = frames[1].stones
    /\ frames[1].stones # ListOccupiedPoints(setup)
    /\ encoder_calls = 1

EncoderFailed == encoder_calls = 1 /\ returncode # 0

\* C8 as stated: a missing input file, an unparseable input file and a
\* failed encoder each end the run with a message and a non-zero status.
C8_AsStated ==
    (pc = "exit" /\ (sgf_file \in {"missing", "unparseable"} \/ EncoderFailed))
        => /\ messages # <<>>
           /\ exit_code \in {Exited(1), Exited(2)}

\* C8 amended: a missing or unparseable input file ends the run with its
\* message and status 2; a failed encoder is reported by the message
\* "ffmpeg failed" and the run ends with status 0.
C8_FailuresReported ==
    pc = "exit" =>
        /\ sgf_file = "missing" =>
              LastMessage = "File not found" /\ exit_code = Exited(2)
        /\ sgf_file = "unparseable" =>
              LastMessage = "Could not parse SGF" /\ exit_code = Exited(2)
        /\ EncoderFailed =>
              LastMessage = "ffmpeg failed" /\ exit_code = Exited(0)

C8_Witness ==
    /\ pc = "exit"
    /\ EncoderFailed
    /\ LastMessage = "ffmpeg failed"
    /\ exit_code = Exited(0)
    /\ Len(frames) = 2

\* C9: the step that calls compute_influence leaves the board as it was and
\* yields the map of the current board alone; during the replay the board
\* changes only in the step that plays a move.
C9_BoardChangedOnlyByMoves ==
    [][/\ pc = "influence" =>
             /\ board' = board
             /\ influence' =
                   [pt \in Points(board_size) |->
                       [black_pct |-> PctOf(pt, StonesOf("b")),
                        white_pct |-> PctOf(pt, StonesOf("w")),
                        rgb |-> colour_from_percentages(
                                    PctOf(pt, StonesOf("b")),
                                    PctOf(pt, StonesOf("w")))]]
       /\ (Replaying /\ board' # board) =>
             /\ pc = "replay"
             /\ idx <= Len(moves)
             /\ moves[idx][2] # PassMove]_vars

C9_Witness ==
    /\ pc = "render"
    /\ idx = 2
    /\ board # BoardAfter(1)
    /\ influence = compute_influence(board, board_size)
    /\ influence # compute_influence(BoardAfter(1), board_size)

\* C10: when the move at index k is the first the board rejects, frames
\* 1..k-1 are all that is ever written, the encoder is never invoked, and
\* the run ends at that move with the message and status 2.
C10_RejectedMoveStops ==
    \A k \in 1 .. Len(moves) :
        (Replaying /\ FirstRejected(k)) =>
            /\ Len(frames) <= k - 1
            /\ \A j \in 1 .. Len(frames) : frames[j].idx = j
            /\ encoder_calls = 0
            /\ idx <= k
            /\ idx = k => pc \in {"replay", "exit"}
            /\ pc = "exit" =>
                  /\ idx = k
                  /\ Len(frames) = k - 1
                  /\ LastMessage = "Invalid move"
                  /\ exit_code = Exited(2)

C10_Witness ==
    /\ pc = "exit"
    /\ FirstRejected(2)
    /\ Len(frames) = 1
    /\ frames[1].idx = 1
    /\ encoder_calls = 0
    /\ exit_code = Exited(2)

====
